---- MODULE Spec2Model ----
(***************************************************************************)
(* Model of rave/dataset.py: the eager, lazy and remote audio datasets,    *)
(* the lazy window extractor, the augmentation pipeline assembled by       *)
(* get_dataset, and the train/validation split.                            *)
(*                                                                         *)
(* Audio buffers are modelled by their shape <<channels, samples>>; the    *)
(* random draws of the transforms and the output of the external decoder   *)
(* are nondeterministic choices.                                           *)
(***************************************************************************)
EXTENDS Integers, Sequences, FiniteSets, TLC

VARIABLES kind, db, decoder, remote_len, n_signal, sr, sr_dataset, n_channels,
          cfg, transform_list, items, meta_channels, ret

vars == <<kind, db, decoder, remote_len, n_signal, sr, sr_dataset, n_channels,
          cfg, transform_list, items, meta_channels, ret>>

\* the dataset object and the files behind it: nothing below writes them
dataset == <<kind, db, decoder, remote_len, n_signal, sr, sr_dataset,
             n_channels, cfg, transform_list, items, meta_channels>>

(***************************************************************************)
(* Bounds of the model.                                                    *)
(***************************************************************************)
MaxRecords == 2      \* records in a store
MaxLength == 3       \* largest declared record length, in 1/LengthDen seconds
LengthDen == 2       \* resolution of the declared 'length' metadata
MaxSr == 2           \* sample rates range over 1..MaxSr
MaxSignal == 2       \* window lengths range over 1..MaxSignal
MaxChannels == 3     \* source and target channel counts range over 1..MaxChannels
MaxBytes == 4        \* most bytes the decoder writes for one channel
MaxWave == 4         \* most int16 samples in an eager record's buffer
MaxRemote == 2       \* largest length reported by the remote service
PipeChannels == 3    \* target channel counts of the pipeline family
MaxSplit == 4        \* largest dataset that is split
MaxCap == 2          \* largest max_residual

Min(a, b) == IF a < b THEN a ELSE b
Max(a, b) == IF a > b THEN a ELSE b

\* x[1:], numpy/Python: a slice start:stop over an axis of n elements, for
\* start >= 0 and any stop (negative stop counts from the end)
SliceLen(n, start, stop) ==
    LET hi == IF stop < 0 THEN Max(n + stop, 0) ELSE Min(stop, n)
        lo == Min(start, n)
    IN  Max(hi - lo, 0)

\* seq[start:stop] of Python (negative bounds count from the end)
PySlice(seq, start, stop) ==
    LET n == Len(seq)
        lo == IF start < 0 THEN Max(n + start, 0) ELSE Min(start, n)
        hi == IF stop < 0 THEN Max(n + stop, 0) ELSE Min(stop, n)
    IN  IF lo >= hi THEN << >> ELSE SubSeq(seq, lo + 1, hi)

Range(seq) == {seq[k] : k \in 1..Len(seq)}

Ok(shape) == [status |-> "ok", shape |-> shape]
Raise(exc) == [status |-> exc, shape |-> << >>]

(***************************************************************************)
(* Transforms, as functions from a shape to the set of possible outcomes.  *)
(***************************************************************************)
max_delay == 1024

\* resampy.resample(x, rate, 1) with rate = 2 ** (u * semitones / 12),
\* u in [-1, 1): the sample axis is rescaled by 1 / rate.  Modelled for
\* semitones = 12: rate in [1/2, 2).
RandomSpeed(x) ==
    {Ok(<<x[1], l>>) : l \in (x[2] \div 2)..(2 * x[2])}

\* shape of a + b under numpy broadcasting along one axis; -1: not broadcastable
Broadcast(a, b) ==
    IF a = b THEN a ELSE IF a = 1 THEN b ELSE IF b = 1 THEN a ELSE -1

\* the values of d_lo = int(random() * (max_delay - 1)) + 1 that differ in
\* effect on an axis of n elements: every d_lo >= n leaves all three slices
\* of RandomDelay empty, so one of them stands for all
DelayDraws(n) == 1..Min(max_delay - 1, n + 1)

\* RandomDelay.__call__: every slice is taken over the FIRST axis of x
RandomDelay(x) ==
    {LET d_hi == d_lo + 1
         delayed == Broadcast(SliceLen(x[1], 1, -d_lo),      \* x[1:-d_lo]
                              SliceLen(x[1], 0, -d_hi))      \* x[:-d_hi]
         out == IF delayed = -1 THEN -1
                ELSE Broadcast(SliceLen(x[1], d_hi, x[1]),   \* x[d_hi:]
                               delayed)
     IN  IF out = -1 THEN Raise("ValueError") ELSE Ok(<<out, x[2]>>)
     : d_lo \in DelayDraws(x[1])}

\* np.max over an empty array raises ValueError
PeakOf(x) == IF x[1] * x[2] = 0 THEN {Raise("ValueError")} ELSE {Ok(x)}

RandomEQ(x) == {Ok(x)}
RandomDistort(x) == PeakOf(x)
RandomGain(x) == PeakOf(x)
normalize_signal(x) == PeakOf(x)
random_phase_mangle(x) == {Ok(x)}
derivator(x) == {Ok(x)}
astype(x) == {Ok(x)}

\* rave.transforms (not part of this source tree)
RandomCrop(x) ==
    IF x[2] < n_signal THEN {Raise("ValueError")} ELSE {Ok(<<x[1], n_signal>>)}
Dequantize(x) == {Ok(x)}
Resample(x) ==
    {Ok(<<x[1], (x[2] * sr) \div sr_dataset>>),
     Ok(<<x[1], (x[2] * sr + sr_dataset - 1) \div sr_dataset>>)}
RandomPitch(x) == {Ok(x)} \cup {Ok(<<x[1], l>>) : l \in 1..(2 * x[2])}
\* RandomApply(transform, p): applied when random() < p
RandomApply(inner, x, p) == IF p THEN {Ok(x)} \cup inner ELSE {Ok(x)}
\* a caller-supplied extra augmentation (gin configured); shape preserving
augmentation(x) == {Ok(x)}

Transform(t, x) ==
    CASE t = "astype" -> astype(x)
      [] t = "RandomPitch" -> RandomPitch(x)
      [] t = "Resample" -> Resample(x)
      [] t = "RandomSpeed" -> RandomSpeed(x)
      [] t = "RandomDelay" -> RandomApply(RandomDelay(x), x, cfg.delay_p)
      [] t = "RandomDistort" -> RandomApply(RandomDistort(x), x, cfg.distort_p)
      [] t = "RandomEQ" -> RandomApply(RandomEQ(x), x, cfg.eq_p)
      [] t = "random_phase_mangle" ->
             RandomApply(random_phase_mangle(x), x, cfg.allpass_p)
      [] t = "RandomCrop" -> RandomCrop(x)
      [] t = "Dequantize" -> Dequantize(x)
      [] t = "normalize_signal" -> normalize_signal(x)
      [] t = "RandomGain" -> RandomGain(x)
      [] t = "derivator" -> derivator(x)
      [] t = "augmentation" -> augmentation(x)

\* rave.transforms.Compose: apply the transforms in list order; an exception
\* of one transform ends the call
RECURSIVE Compose(_, _, _)
Compose(ts, k, outs) ==
    IF k > Len(ts) THEN outs
    ELSE Compose(ts, k + 1,
             {o \in outs : o.status # "ok"} \cup
             UNION {Transform(ts[k], o.shape) : o \in {p \in outs : p.status = "ok"}})

(***************************************************************************)
(* get_dataset: the pipeline assembled from the configuration.             *)
(***************************************************************************)
\* list.insert(i, e) of Python for 0 <= i
InsertAt(l, i, e) ==
    LET at == Min(i, Len(l))
    IN  SubSeq(l, 1, at) \o <<e>> \o SubSeq(l, at + 1, Len(l))

AppendIf(l, cond, e) == IF cond THEN Append(l, e) ELSE l

\* TransformList with the crop appended before the comb delay
TransformList_CropEarly(c, rate, rate_dataset) ==
    LET t0 == <<"astype">>
        t1 == IF c.rand_pitch THEN InsertAt(t0, 1, "RandomPitch") ELSE t0
        t2 == AppendIf(t1, rate_dataset # rate, "Resample")
        t3 == AppendIf(t2, c.speed_semitones, "RandomSpeed")
        t4 == Append(t3, "RandomCrop")
        t5 == AppendIf(t4, c.delay_p, "RandomDelay")
        t6 == AppendIf(t5, c.distort_p, "RandomDistort")
        t7 == AppendIf(t6, c.eq_p, "RandomEQ")
        t8 == Append(t7, "random_phase_mangle")
        t9 == Append(t8, "Dequantize")
        t10 == AppendIf(t9, c.normalize, "normalize_signal")
        t11 == AppendIf(t10, c.gain_db, "RandomGain")
        t12 == AppendIf(t11, c.derivative, "derivator")
        t13 == t12 \o c.augmentations
    IN  Append(t13, "astype")

TransformList(c, rate, rate_dataset) ==
    LET t0 == <<"astype">>
        t1 == IF c.rand_pitch THEN InsertAt(t0, 1, "RandomPitch") ELSE t0
        t2 == AppendIf(t1, rate_dataset # rate, "Resample")
        t3 == AppendIf(t2, c.speed_semitones, "RandomSpeed")
        t4 == AppendIf(t3, c.delay_p, "RandomDelay")
        t5 == AppendIf(t4, c.distort_p, "RandomDistort")
        t6 == AppendIf(t5, c.eq_p, "RandomEQ")
        t7 == Append(t6, "random_phase_mangle")
        t8 == Append(t7, "RandomCrop")
        t9 == Append(t8, "Dequantize")
        t10 == AppendIf(t9, c.normalize, "normalize_signal")
        t11 == AppendIf(t10, c.gain_db, "RandomGain")
        t12 == AppendIf(t11, c.derivative, "derivator")
        t13 == t12 \o c.augmentations
    IN  Append(t13, "astype")

(***************************************************************************)
(* LazyAudioDataset.parse_dataset: the cumulative window index.            *)
(***************************************************************************)
\* NChunks with the sample count rounded up instead of down
NChunks_Ceil(length, rate, window) ==
    LET n_samples == (length * rate + LengthDen - 1) \div LengthDen
    IN  n_samples \div window

\* n_chunks of one record; its 'length' metadata is length / LengthDen seconds
NChunks(length, rate, window) ==
    LET n_samples == (length * rate) \div LengthDen      \* math.floor(length * sr)
    IN  n_samples \div window                            \* n_signal // self._n_signal

RECURSIVE CumSum(_)
CumSum(s) ==
    IF s = << >> THEN << >>
    ELSE LET front == CumSum(SubSeq(s, 1, Len(s) - 1))
         IN  Append(front, (IF front = << >> THEN 0 ELSE front[Len(front)]) + s[Len(s)])

parse_dataset(store, rate, window) ==
    CumSum([k \in 1..Len(store) |-> NChunks(store[k].length, rate, window)])

(***************************************************************************)
(* extract_audio: one decoder run per entry of the channel map.            *)
(***************************************************************************)
RECURSIVE Repeat(_, _)
Repeat(times, l) == IF times <= 0 THEN << >> ELSE l \o Repeat(times - 1, l)

CeilDiv(a, b) == (a + b - 1) \div b

\* ChannelMap without the upmixing branch
ChannelMap_Range(input_channels, channels) ==
    [c \in 1..channels |-> c - 1]

ChannelMap(input_channels, channels) ==
    LET all == [c \in 1..channels |-> c - 1]             \* range(channels)
        src == [c \in 1..input_channels |-> c - 1]       \* range(input_channels)
    IN  IF input_channels < channels
        THEN PySlice(Repeat(CeilDiv(channels, input_channels), src), 0, channels)
        ELSE all

\* what one decoder run leaves on its standard output, and its exit status
DecodeOutcomes == [bytes : 0..MaxBytes, exit : {0, 1}]
\* a decoder that always succeeds with the most samples
Healthy == {[bytes |-> 2 * (MaxBytes \div 2), exit |-> 0]}

\* outs[k] is the outcome of the k-th decoder run.  Result: the runs made, the
\* outcome and the shape of the returned array.
extract_audio(window, start_sample, input_channels, channels, outs) ==
    LET channel_map == ChannelMap(input_channels, channels)
        \* np.frombuffer(chunk, dtype=np.int16) needs whole int16 samples
        odd == {k \in 1..Len(channel_map) : outs[k].bytes % 2 = 1}
        last == IF odd = {} THEN Len(channel_map)
                ELSE CHOOSE k \in odd : \A j \in odd : k <= j
        requests == [k \in 1..last |->
                        [channel |-> channel_map[k], start_sample |-> start_sample]]
        \* np.concatenate([chunk, np.zeros(n_signal)], -1)
        chunk == [k \in 1..Len(channel_map) |-> (outs[k].bytes \div 2) + window]
        result ==
            IF odd # {} THEN Raise("ValueError")
            ELSE IF Len(channel_map) = 0 THEN Raise("ValueError")
            ELSE IF \E k \in 1..Len(chunk) : chunk[k] # chunk[1]
                 THEN Raise("ValueError")                 \* np.stack
            ELSE Ok(<<Len(chunk), Min(chunk[1], window * 2)>>)
    IN  [requests |-> requests, decoded |-> SubSeq(outs, 1, last), result |-> result]

(***************************************************************************)
(* The datasets get_dataset can return.                                    *)
(***************************************************************************)
Flags == [rand_pitch : BOOLEAN, speed_semitones : BOOLEAN, delay_p : BOOLEAN,
          distort_p : BOOLEAN, eq_p : BOOLEAN, allpass_p : BOOLEAN,
          normalize : BOOLEAN, gain_db : BOOLEAN, derivative : BOOLEAN,
          augmentations : {<< >>, <<"augmentation">>}]

\* the defaults of get_dataset's signature
DefaultFlags ==
    [rand_pitch |-> FALSE, speed_semitones |-> FALSE, delay_p |-> FALSE,
     distort_p |-> FALSE, eq_p |-> FALSE, allpass_p |-> TRUE,
     normalize |-> FALSE, gain_db |-> FALSE, derivative |-> FALSE,
     augmentations |-> << >>]

SeqsUpTo(S, n) == UNION {[1..k -> S] : k \in 0..n}

LazyRecords(chans) == [length : 0..MaxLength, channels : chans, waveform : {0}]
EagerRecords == [length : {0}, channels : {1}, waveform : 0..MaxWave]

NoRet ==
    [op |-> "none", index |-> 0, status |-> "none", shape |-> << >>,
     fetched |-> FALSE, audio_id |-> 0, offset |-> 0,
     requests |-> << >>, decoded |-> << >>, extracted |-> << >>,
     total |-> 0, percent |-> 0, max_residual |-> [given |-> FALSE, value |-> 0],
     split1 |-> 0, split2 |-> 0, train |-> {}, val |-> {},
     target |-> 0, channels |-> 0]

\* get_dataset(db_path, sr, n_signal, ..., n_channels) over the given stores,
\* dataset-level metadata (meta_sr = 0: no 'sr' entry) and arguments
get_dataset(lazyStores, eagerStores, decoders, remoteLens, windows, targets, rates, metaRates, flags) ==
    /\ ret = NoRet
    /\ decoder \in decoders
    /\ \/ /\ kind = "HTTPAudioDataset"
          /\ remote_len \in remoteLens
          /\ db = << >> /\ items = << >> /\ transform_list = << >>
          /\ cfg = DefaultFlags
          /\ n_signal = 1 /\ n_channels = 1 /\ sr = 1 /\ sr_dataset = 1
       \/ /\ kind \in {"AudioDataset", "LazyAudioDataset"}
          /\ remote_len = 0
          /\ cfg \in flags
          /\ n_signal \in windows
          /\ n_channels \in targets
          /\ sr \in rates
          /\ \E meta_sr \in metaRates :
                sr_dataset = IF meta_sr = 0 THEN sr ELSE meta_sr
          /\ transform_list = TransformList(cfg, sr, sr_dataset)
          /\ IF kind = "LazyAudioDataset"
             THEN /\ db \in lazyStores
                  /\ items = parse_dataset(db, sr_dataset, n_signal)
             ELSE /\ db \in eagerStores
                  /\ items = << >>

(***************************************************************************)
(* __len__ of the three datasets; -1 stands for the IndexError that        *)
(* self.items[-1] raises on an empty index.                                *)
(***************************************************************************)
DatasetLen ==
    CASE kind = "AudioDataset" -> Len(db)
      [] kind = "LazyAudioDataset" ->
             IF items = << >> THEN -1 ELSE items[Len(items)]
      [] kind = "HTTPAudioDataset" -> remote_len

Indices == (0 - DatasetLen - 1)..(DatasetLen + 1)

(***************************************************************************)
(* __getitem__                                                             *)
(***************************************************************************)
\* run the pipeline on a window and return (or raise) one of its outcomes
ApplyTransforms(base, shape) ==
    \E o \in Compose(transform_list, 1, {Ok(shape)}) :
        ret' = [base EXCEPT !.status = o.status, !.shape = o.shape]

\* Resolve with index <= self.items in place of index < self.items
Resolve_LE(index) ==
    LET where == {k \in 1..Len(items) : index <= items[k]}
        audio_id == (CHOOSE k \in where : \A j \in where : k <= j) - 1
    IN  IF where = {}
        THEN [found |-> FALSE, audio_id |-> 0, offset |-> 0]
        ELSE [found |-> TRUE, audio_id |-> audio_id,
              offset |-> IF audio_id # 0 THEN index - items[audio_id] ELSE index]

\* Resolve without the subtraction of the previous cumulative bound
Resolve_NoRebase(index) ==
    LET where == {k \in 1..Len(items) : index < items[k]}
        audio_id == (CHOOSE k \in where : \A j \in where : k <= j) - 1
    IN  IF where = {}
        THEN [found |-> FALSE, audio_id |-> 0, offset |-> 0]
        ELSE [found |-> TRUE, audio_id |-> audio_id, offset |-> index]

\* audio_id = np.where(index < self.items)[0][0], then the index within the
\* record; found = FALSE stands for the IndexError of [0][0] on no match
Resolve(index) ==
    LET where == {k \in 1..Len(items) : index < items[k]}
        audio_id == (CHOOSE k \in where : \A j \in where : k <= j) - 1
    IN  IF where = {}
        THEN [found |-> FALSE, audio_id |-> 0, offset |-> 0]
        ELSE [found |-> TRUE, audio_id |-> audio_id,
              offset |-> IF audio_id # 0 THEN index - items[audio_id] ELSE index]

LazyGetItem(index) ==
    /\ ret.op = "none"
    /\ kind = "LazyAudioDataset"
    /\ LET at == Resolve(index)
           base == [NoRet EXCEPT !.op = "getitem", !.index = index]
       IN  IF ~at.found
           THEN ret' = [base EXCEPT !.status = "IndexError"]
           ELSE \E outs \in [1..n_channels -> decoder] :
                LET ae == db[at.audio_id + 1]
                    ex == extract_audio(n_signal, at.offset * n_signal,
                                        ae.channels, n_channels, outs)
                    got == [base EXCEPT !.fetched = TRUE,
                                        !.audio_id = at.audio_id,
                                        !.offset = at.offset,
                                        !.requests = ex.requests,
                                        !.decoded = ex.decoded,
                                        !.extracted = ex.result.shape]
                IN  IF ex.result.status # "ok"
                    THEN ret' = [got EXCEPT !.status = ex.result.status]
                    ELSE ApplyTransforms(got, ex.result.shape)
    /\ UNCHANGED dataset

EagerGetItem(index) ==
    /\ ret.op = "none"
    /\ kind = "AudioDataset"
    /\ LET base == [NoRet EXCEPT !.op = "getitem", !.index = index]
           n == Len(db)
       IN  IF index >= n \/ index < 0 - n
           THEN ret' = [base EXCEPT !.status = "IndexError"]   \* self.keys[index]
           ELSE LET pos == IF index < 0 THEN index + n ELSE index
                    size == db[pos + 1].waveform
                    got == [base EXCEPT !.fetched = TRUE, !.audio_id = pos]
                IN  \* audio.reshape(self._n_channels, -1)
                    IF size = 0 \/ size % n_channels # 0
                    THEN ret' = [got EXCEPT !.status = "ValueError"]
                    ELSE ApplyTransforms(
                             [got EXCEPT !.extracted = <<n_channels, size \div n_channels>>],
                             <<n_channels, size \div n_channels>>)
    /\ UNCHANGED dataset

\* the request is sent for any index; what the service answers to an index
\* it does not hold is up to the service
HTTPGetItem(index) ==
    /\ ret.op = "none"
    /\ kind = "HTTPAudioDataset"
    /\ LET got == [NoRet EXCEPT !.op = "getitem", !.index = index,
                                !.fetched = TRUE, !.audio_id = index]
       IN  \/ ret' = [got EXCEPT !.status = "ok"]
           \/ /\ ~(0 <= index /\ index < remote_len)
              /\ ret' = [got EXCEPT !.status = "RemoteError"]
    /\ UNCHANGED dataset

(***************************************************************************)
(* split_dataset                                                           *)
(***************************************************************************)
None == [given |-> FALSE, value |-> 0]
Some(v) == [given |-> TRUE, value |-> v]

\* SplitCounts rounding the train share to the nearest count
SplitCounts_Round(total, percent, max_residual) ==
    LET split1 == Max((percent * total + 50) \div 100, 1)
        split2 == total - split1
    IN  IF max_residual.given
        THEN LET capped == Min(max_residual.value, split2)
             IN  <<total - capped, capped>>
        ELSE <<split1, split2>>

\* SplitCounts without the floor of one example
SplitCounts_NoMin(total, percent, max_residual) ==
    LET split1 == (percent * total) \div 100
        split2 == total - split1
    IN  IF max_residual.given
        THEN LET capped == Min(max_residual.value, split2)
             IN  <<total - capped, capped>>
        ELSE <<split1, split2>>

SplitCounts(total, percent, max_residual) ==
    LET split1 == Max((percent * total) \div 100, 1)
        split2 == total - split1
    IN  IF max_residual.given
        THEN LET capped == Min(max_residual.value, split2)
             IN  <<total - capped, capped>>
        ELSE <<split1, split2>>

\* RandomSplit whose second subset starts one index early
RandomSplit_Overlap(total, lengths, indices) ==
    IF lengths[1] + lengths[2] # total
    THEN [status |-> "ValueError", train |-> {}, val |-> {}]
    ELSE [status |-> "ok",
          train |-> Range(PySlice(indices, lengths[1] - lengths[1], lengths[1])),
          val |-> Range(PySlice(indices,
                                Max((lengths[1] + lengths[2]) - lengths[2] - 1, 0),
                                lengths[1] + lengths[2]))]

\* torch.utils.data.random_split(dataset, lengths, generator): indices is a
\* permutation of range(sum(lengths)); subset k is
\* indices[offset_k - length_k : offset_k]
RandomSplit(total, lengths, indices) ==
    IF lengths[1] + lengths[2] # total
    THEN [status |-> "ValueError", train |-> {}, val |-> {}]
    ELSE [status |-> "ok",
          train |-> Range(PySlice(indices, lengths[1] - lengths[1], lengths[1])),
          val |-> Range(PySlice(indices, (lengths[1] + lengths[2]) - lengths[2],
                                lengths[1] + lengths[2]))]

Perms(n) == {p \in [1..n -> 0..(n - 1)] : \A i, j \in 1..n : p[i] = p[j] => i = j}

Percents == {-50, 0, 50, 98, 150}
Caps == {None} \cup {Some(v) : v \in (0 - 1)..MaxCap}

SplitDataset(percent, max_residual) ==
    /\ ret.op = "none"
    /\ DatasetLen <= MaxSplit
    /\ LET total == DatasetLen
           base == [NoRet EXCEPT !.op = "split", !.percent = percent,
                                 !.max_residual = max_residual]
       IN  IF total < 0
           THEN ret' = [base EXCEPT !.status = "IndexError"]    \* len(dataset)
           ELSE LET counts == SplitCounts(total, percent, max_residual)
                IN  \E indices \in Perms(total) :
                      LET parts == RandomSplit(total, counts, indices)
                      IN  ret' = [base EXCEPT !.status = parts.status,
                                              !.total = total,
                                              !.split1 = counts[1],
                                              !.split2 = counts[2],
                                              !.train = parts.train,
                                              !.val = parts.val]
    /\ UNCHANGED dataset

(***************************************************************************)
(* get_training_channels                                                   *)
(***************************************************************************)
\* the 'channels' entry of metadata.yaml; 0 stands for no entry (None)
metadata_yaml(channels) == meta_channels \in channels

\* dataset_channels = 0: None; target_channels = 0: a falsy target (None, 0).
\* The raise statement applies % to the exception object and reads FLAGS,
\* a name this module does not define: evaluating it raises NameError.
get_training_channels(dataset_channels, target_channels) ==
    IF dataset_channels # 0 /\ target_channels > dataset_channels
    THEN [status |-> "NameError", channels |-> 0]
    ELSE LET n == IF target_channels # 0 THEN target_channels
                  ELSE dataset_channels
         IN  [status |-> "ok", channels |-> IF n = 0 THEN 1 ELSE n]

GetTrainingChannels(target_channels) ==
    /\ ret.op = "none"
    /\ kind \in {"AudioDataset", "LazyAudioDataset"}
    /\ LET r == get_training_channels(meta_channels, target_channels)
       IN  ret' = [NoRet EXCEPT !.op = "get_training_channels",
                                !.target = target_channels,
                                !.status = r.status,
                                !.channels = r.channels]
    /\ UNCHANGED dataset

\* the caller takes the result (or the exception) of its call; calls are
\* made one at a time
Return ==
    /\ ret.op # "none"
    /\ ret' = NoRet
    /\ UNCHANGED dataset

(***************************************************************************)
(* Specifications: the same operations over families of datasets.          *)
(***************************************************************************)
GetItem ==
    \E index \in Indices :
        \/ LazyGetItem(index)
        \/ EagerGetItem(index)
        \/ HTTPGetItem(index)

Split == \E percent \in Percents, max_residual \in Caps :
             SplitDataset(percent, max_residual)

TrainingChannels ==
    \E target_channels \in 0..MaxChannels : GetTrainingChannels(target_channels)

Next == GetItem \/ Split \/ TrainingChannels \/ Return

\* mono stores of every size and record length
Init ==
    /\ metadata_yaml({0})
    /\ get_dataset(SeqsUpTo(LazyRecords({1}), MaxRecords),
                   SeqsUpTo(EagerRecords, MaxRecords),
                   {DecodeOutcomes}, 0..MaxRemote, 1..MaxSignal, {1}, 1..MaxSr,
                   {0}, {DefaultFlags})

Spec == Init /\ [][Next]_vars

\* one-record stores, every source and target channel count
InitExtract ==
    /\ metadata_yaml({0})
    /\ get_dataset({<<r>> : r \in {q \in LazyRecords(1..MaxChannels) :
                                     q.length = MaxLength}},
                   [1..1 -> EagerRecords],
                   {DecodeOutcomes}, {1}, 1..MaxSignal, 1..MaxChannels, {MaxSr},
                   {0}, {DefaultFlags})

SpecExtract == InitExtract /\ [][Next]_vars

\* every combination of the augmentation flags
InitPipeline ==
    /\ metadata_yaml({0})
    /\ get_dataset({<<[length |-> MaxLength, channels |-> 1, waveform |-> 0]>>},
                   {<<[length |-> 0, channels |-> 1, waveform |-> MaxWave]>>},
                   {Healthy}, {1}, {MaxSignal}, 1..PipeChannels, {MaxSr},
                   0..1, {f \in Flags : f.augmentations = << >>})

SpecPipeline == InitPipeline /\ [][Next]_vars

\* every combination of the flags, caller-supplied extras included, mono
InitOrder ==
    /\ metadata_yaml({0})
    /\ get_dataset({<<[length |-> MaxLength, channels |-> 1, waveform |-> 0]>>},
                   {<<[length |-> 0, channels |-> 1, waveform |-> MaxWave]>>},
                   {Healthy}, {1}, {MaxSignal}, {1}, {MaxSr}, 0..1, Flags)

SpecOrder == InitOrder /\ [][Next]_vars

\* every declared and every requested channel count
InitChannels ==
    /\ metadata_yaml(0..MaxChannels)
    /\ get_dataset({<<[length |-> MaxLength, channels |-> 1, waveform |-> 0]>>},
                   {<<[length |-> 0, channels |-> 1, waveform |-> MaxWave]>>},
                   {Healthy}, {1}, {MaxSignal}, 1..MaxChannels, {MaxSr},
                   {0}, {DefaultFlags})

SpecChannels == InitChannels /\ [][Next]_vars

(***************************************************************************)
(* Properties                                                              *)
(***************************************************************************)
Local == kind \in {"AudioDataset", "LazyAudioDataset"}
Lazy == kind = "LazyAudioDataset"
Got == ret.op = "getitem"
ValidIndex == 0 <= ret.index /\ ret.index < DatasetLen
SplitDone == ret.op = "split"

\* windows of record k (1-based): floor(length * sample_rate / window_length)
Windows(k) == (db[k].length * sr_dataset) \div (LengthDen * n_signal)

RECURSIVE WindowsUpTo(_)
WindowsUpTo(k) == IF k = 0 THEN 0 ELSE WindowsUpTo(k - 1) + Windows(k)

\* C1: in a local mode, whatever augmentations are enabled, a buffer returned
\* by get(i) for a valid index i has shape (target_channels, window_length).
C1_ShapePreserved ==
    (Got /\ Local /\ ValidIndex /\ ret.status = "ok")
        => ret.shape = <<n_channels, n_signal>>

\* C2: get(index) with an index outside 0 <= index < length() fails with
\* IndexError and reads, extracts or fetches nothing.
C2_OutOfRange ==
    (Got /\ ~ValidIndex)
        => (ret.status = "IndexError" /\ ~ret.fetched)

\* C3: whatever the decoder returns, the lazy extractor returns exactly
\* 2 * window_length samples for each of the target channels.
C3_ExtractLength ==
    (Got /\ Lazy /\ ValidIndex /\ ret.fetched)
        => ret.extracted = <<n_channels, 2 * n_signal>>

\* C4: when a decoder run of a lazy window exits with nonzero status or
\* writes nothing, get(index) fails with an extraction error.
C4_DecodeFailure ==
    (Got /\ Lazy /\ ValidIndex /\ \E k \in 1..Len(ret.decoded) :
                        ret.decoded[k].exit # 0 \/ ret.decoded[k].bytes = 0)
        => ret.status = "ExtractionError"

Partition ==
    /\ ret.status = "ok"
    /\ ret.train \cap ret.val = {}
    /\ ret.train \cup ret.val = 0..(ret.total - 1)
    /\ Cardinality(ret.train) = ret.split1
    /\ Cardinality(ret.val) = ret.split2
    /\ ret.split1 >= 0 /\ ret.split2 >= 0
    /\ ret.split1 + ret.split2 = ret.total

\* C5 as claimed: for every total >= 0, percent and optional residual cap the
\* two index sets are disjoint, cover [0, total), and have the non-negative
\* sizes train_count and val_count with train_count + val_count = total.
C5_Original == (SplitDone /\ ret.status # "IndexError") => Partition

\* C5 as amended: the same for every total >= 1, percent <= 100 and residual
\* cap that is absent or >= 0.
C5_Partition ==
    (SplitDone /\ ret.total >= 1 /\ ret.percent <= 100
              /\ (ret.max_residual.given => ret.max_residual.value >= 0))
        => Partition

C5_Witness ==
    /\ SplitDone /\ ret.total = 3 /\ ret.percent = 50
    /\ ret.max_residual = Some(1)
    /\ Cardinality(ret.train) = 2 /\ Cardinality(ret.val) = 1

Share == Max((ret.percent * ret.total) \div 100, 1)

\* C6 as claimed: without a residual cap val_count = max(floor(total *
\* percent / 100), 1) and train_count = total - val_count; with a cap
\* val_count is clamped to it and train_count = total - val_count.
C6_Original ==
    (SplitDone /\ ret.status = "ok") =>
        /\ ret.split2 = IF ret.max_residual.given
                        THEN Min(ret.max_residual.value, Share) ELSE Share
        /\ ret.split1 = ret.total - ret.split2

\* C6 as amended: without a residual cap train_count = max(floor(total *
\* percent / 100), 1) and val_count = total - train_count; with a cap
\* val_count is the smaller of the cap and that value, and train_count =
\* total - val_count.
C6_Counts ==
    (SplitDone /\ ret.status = "ok") =>
        /\ ret.split2 = IF ret.max_residual.given
                        THEN Min(ret.max_residual.value, ret.total - Share)
                        ELSE ret.total - Share
        /\ ret.split1 = ret.total - ret.split2

C6_Witness ==
    /\ SplitDone /\ ret.status = "ok" /\ ret.total = 4 /\ ret.percent = 50
    /\ ret.max_residual = Some(1) /\ ret.split1 = 3 /\ ret.split2 = 1

\* C7 as claimed: for total >= 1, percent > 0 and no residual cap the
\* validation set (the second set returned) holds at least one index.
C7_Original ==
    (SplitDone /\ ret.status = "ok" /\ ret.total >= 1 /\ ret.percent > 0
              /\ ~ret.max_residual.given)
        => (ret.split2 >= 1 /\ ret.val # {})

\* C7 as amended: for total >= 1, percent > 0 and no residual cap the
\* training set (the first set returned) holds at least one index.
C7_TrainNonEmpty ==
    (SplitDone /\ ret.status = "ok" /\ ret.total >= 1 /\ ret.percent > 0
              /\ ~ret.max_residual.given)
        => (ret.split1 >= 1 /\ ret.train # {})

C7_Witness ==
    /\ SplitDone /\ ret.status = "ok" /\ ret.total = 1 /\ ret.percent = 98
    /\ ~ret.max_residual.given /\ ret.train = {0} /\ ret.val = {}

\* C8: the cumulative index of a lazy dataset has one entry per record,
\* entry k is the sum over records 0..k of floor(length * sample_rate /
\* window_length), the table is non-decreasing and length() is its last entry.
C8_CumulativeIndex ==
    Lazy =>
        /\ Len(items) = Len(db)
        /\ \A k \in 1..Len(items) : items[k] = WindowsUpTo(k)
        /\ \A k \in 2..Len(items) : items[k - 1] <= items[k]
        /\ Len(items) > 0 => DatasetLen = items[Len(items)]

C8_Witness ==
    /\ Lazy /\ Len(db) = 2 /\ db[1].length = 3 /\ db[2].length = 1
    /\ sr_dataset = 1 /\ n_signal = 1
    /\ items = <<1, 1>>

NonEmpty == {k \in 1..Len(db) : Windows(k) > 0}
First(S) == CHOOSE k \in S : \A j \in S : k <= j
Last(S) == CHOOSE k \in S : \A j \in S : j <= k

\* C9 as claimed: with total >= 1, index 0 resolves to (record 0, window 0)
\* and index total - 1 to the last record of the store with a window ordinal
\* valid for that record.
C9_Original ==
    (Got /\ Lazy /\ DatasetLen >= 1) =>
        /\ ret.index = 0 =>
              (ret.fetched /\ ret.audio_id = 0 /\ ret.offset = 0)
        /\ ret.index = DatasetLen - 1 =>
              /\ ret.fetched /\ ret.audio_id = Len(db) - 1
              /\ 0 <= ret.offset /\ ret.offset < Windows(Len(db))

\* C9 as amended: with total >= 1, index 0 resolves to window 0 of the first
\* record that contributes a window, and index total - 1 to the last window
\* of the last record that contributes a window.
C9_Ends ==
    (Got /\ Lazy /\ DatasetLen >= 1) =>
        /\ ret.index = 0 =>
              (ret.fetched /\ ret.audio_id = First(NonEmpty) - 1 /\ ret.offset = 0)
        /\ ret.index = DatasetLen - 1 =>
              /\ ret.fetched /\ ret.audio_id = Last(NonEmpty) - 1
              /\ ret.offset = Windows(Last(NonEmpty)) - 1

C9_Witness ==
    /\ Got /\ Lazy /\ Len(db) = 2 /\ Windows(1) = 0 /\ Windows(2) > 0
    /\ ret.index = 0 /\ ret.fetched /\ ret.audio_id = 1 /\ ret.offset = 0

\* C10: the channel map has target_channels entries; entry c is c mod
\* source_channels when source_channels < target_channels and c otherwise;
\* every entry is a source channel in [0, source_channels); one decoder run
\* is made per entry, in map order (up to a run whose output cannot be read).
C10_ChannelMap ==
    (Got /\ Lazy /\ ret.fetched) =>
        LET source == db[ret.audio_id + 1].channels
            unread == {k \in 1..Len(ret.decoded) : ret.decoded[k].bytes % 2 = 1}
        IN  /\ Len(ret.requests) = Len(ret.decoded)
            /\ unread = {} => Len(ret.requests) = n_channels
            /\ unread # {} => unread = {Len(ret.requests)}
            /\ Len(ret.requests) <= n_channels
            /\ \A c \in 1..Len(ret.requests) :
                  /\ ret.requests[c].channel =
                        IF source < n_channels THEN (c - 1) % source ELSE c - 1
                  /\ ret.requests[c].channel \in 0..(source - 1)

C10_Witness ==
    /\ Got /\ Lazy /\ ret.fetched /\ n_channels = 3
    /\ Len(ret.requests) = 3
    /\ db[ret.audio_id + 1].channels = 2
    /\ [c \in 1..3 |-> ret.requests[c].channel] = <<0, 1, 0>>

\* the order of section 4.4, without the final cast
Order ==
    <<"astype", "RandomPitch", "Resample", "RandomSpeed", "RandomDelay",
      "RandomDistort", "RandomEQ", "random_phase_mangle", "RandomCrop",
      "Dequantize", "normalize_signal", "RandomGain", "derivator",
      "augmentation">>
Rank(t) == CHOOSE k \in 1..Len(Order) : Order[k] = t
Body == SubSeq(transform_list, 1, Len(transform_list) - 1)
Has(t) == \E k \in 1..Len(Body) : Body[k] = t
LengthAltering == {"RandomPitch", "Resample", "RandomSpeed", "RandomDelay"}

\* C11: for every combination of toggles the pipeline lists its transforms
\* in the fixed order upcast, pitch, resample, speed, delay, distortion, EQ,
\* allpass, crop, dequantize, normalize, gain, derivative, extras, final cast;
\* an optional transform is present exactly when its parameter is enabled
\* (resample exactly when the two rates differ), and the crop comes after
\* every length-altering transform.
C11_PipelineOrder ==
    Local =>
        /\ Len(transform_list) >= 2
        /\ transform_list[1] = "astype"
        /\ transform_list[Len(transform_list)] = "astype"
        /\ \A j, k \in 1..Len(Body) :
              j < k => \/ Rank(Body[j]) < Rank(Body[k])
                       \/ Body[j] = "augmentation" /\ Body[k] = "augmentation"
        /\ Has("RandomPitch") <=> cfg.rand_pitch
        /\ Has("Resample") <=> sr_dataset # sr
        /\ Has("RandomSpeed") <=> cfg.speed_semitones
        /\ Has("RandomDelay") <=> cfg.delay_p
        /\ Has("RandomDistort") <=> cfg.distort_p
        /\ Has("RandomEQ") <=> cfg.eq_p
        /\ Has("random_phase_mangle") /\ Has("RandomCrop") /\ Has("Dequantize")
        /\ Has("normalize_signal") <=> cfg.normalize
        /\ Has("RandomGain") <=> cfg.gain_db
        /\ Has("derivator") <=> cfg.derivative
        /\ Cardinality({k \in 1..Len(Body) : Body[k] = "augmentation"})
               = Len(cfg.augmentations)
        /\ \A j, k \in 1..Len(Body) :
              (Body[j] \in LengthAltering /\ Body[k] = "RandomCrop") => j < k

C11_Witness ==
    /\ Local /\ sr_dataset # sr
    /\ cfg.rand_pitch /\ cfg.speed_semitones /\ cfg.delay_p /\ cfg.distort_p
    /\ cfg.eq_p /\ cfg.normalize /\ cfg.gain_db /\ cfg.derivative
    /\ cfg.augmentations = <<"augmentation">>
    /\ transform_list = Order \o <<"astype">>

\* decodable samples of record k (1-based): floor(length * sample_rate)
Samples(k) == (db[k].length * sr_dataset) \div LengthDen

\* C13: in a lazy dataset every valid index resolves to a record r that
\* contributes a window and to an ordinal k with 0 <= k < count(r); distinct
\* indices resolve to distinct (r, k); and the start sample k * window_length
\* given to the extractor leaves window_length samples inside the record.
C13_Bijection ==
    /\ (Got /\ Lazy /\ ValidIndex) =>
          /\ ret.fetched
          /\ Windows(ret.audio_id + 1) >= 1
          /\ 0 <= ret.offset /\ ret.offset < Windows(ret.audio_id + 1)
          /\ ret.index = WindowsUpTo(ret.audio_id) + ret.offset
          /\ Len(ret.requests) >= 1
          /\ \A c \in 1..Len(ret.requests) :
                /\ ret.requests[c].start_sample = ret.offset * n_signal
                /\ ret.requests[c].start_sample + n_signal
                      <= Samples(ret.audio_id + 1)
    /\ Lazy =>
          \A i, j \in 0..(DatasetLen - 1) :
              /\ Resolve(i).found
              /\ i # j => <<Resolve(i).audio_id, Resolve(i).offset>>
                            # <<Resolve(j).audio_id, Resolve(j).offset>>

C13_Witness ==
    /\ Got /\ Lazy /\ ValidIndex /\ ret.fetched
    /\ Len(db) = 2 /\ Windows(1) >= 1 /\ ret.audio_id = 1 /\ ret.offset >= 1

Asked == ret.op = "get_training_channels"

\* C12: a local dataset that requests more channels than the dataset-level
\* metadata declares fails at construction with a configuration error, so no
\* get(index) is ever served by such a dataset; get_training_channels raises
\* that error (a RuntimeError carrying the message) for such a request, and
\* uses 1 channel when neither the metadata nor the caller names a count.
C12_ConfigError ==
    /\ (Got /\ Local /\ meta_channels # 0) => n_channels <= meta_channels
    /\ (Asked /\ meta_channels # 0 /\ ret.target > meta_channels)
          => ret.status = "RuntimeError"
    /\ (Asked /\ meta_channels = 0 /\ ret.target = 0)
          => (ret.status = "ok" /\ ret.channels = 1)

====
